---- MODULE Spec2Model ----
(***************************************************************************)
(* Verification model of the beer-garden federation core:                  *)
(*   - the STOMP operation listener and its reply dispatch                 *)
(*     (src/app/beer_garden/api/stomp/server.py),                          *)
(*   - the job PATCH handler (brew_view/handlers/v1/job.py),               *)
(*   - the user federation sync and the handling of events of other        *)
(*     gardens (src/app/beer_garden/user.py),                              *)
(*   - the stomp Connection wrapper (api/stomp/server.py),                 *)
(*   - startup and shutdown in main (src/app/beer_garden/__main__.py),     *)
(*   - the job DELETE handler (brew_view/handlers/v1/job.py),              *)
(*   - user_synced_with_garden, USER_UPDATED handlers running at the same  *)
(*     time, and the user sync across a federation of gardens              *)
(*     (src/app/beer_garden/user.py).                                      *)
(* Each part has its own specification over the shared variables.          *)
(***************************************************************************)
EXTENDS Integers, Sequences, FiniteSets, TLC

\* Python's None
None == "None"

\* Python truthiness of an optional string (None and "" are falsy)
Truthy(x) == x \notin {None, ""}

(***************************************************************************)
(* Bounds                                                                  *)
(***************************************************************************)
\* longest log of outbound broker frames that is recorded
MaxSent == 3
\* longest operation list of one PATCH request
MaxOps == 2
\* longest role-assignment list of the user handed to the filter
MaxAssignments == 3
\* longest serialized_users batch of one USER_SYNC operation
MaxBatch == 2
\* number of distinct salts the password hash may draw
MaxSalt == 2

\* event timestamps are 1..MaxTime
MaxTime == 2

\* broker connect attempts of one Connection
MaxConnects == 2

\* failed probes of one progressive_backoff
MaxAttempts == 2

\* DELETE requests in flight at once
MaxDeletes == 2

\* calls of _handle_user_updated_event in progress at once
MaxHandlers == 2

(***************************************************************************)
(* State                                                                   *)
(***************************************************************************)
VARIABLES
    \* ---- stomp listener ----
    connected,        \* conn.is_connected()
    sendDestination,  \* OperationListener.send_destination
    sent,             \* frames handed to the broker: [destination, model]
    lastMsg,          \* what the last on_message call saw and how it ended
    \* ---- job PATCH handler and scheduler backend ----
    jobStatus,        \* Job.status as the scheduler backend holds it
    patchPc,          \* position of JobAPI.patch: idle, await, done
    patchOps,         \* the parsed operation list of the request
    patchIdx,         \* index of the operation the loop is at
    patchResponse,    \* the local variable `response`
    patchWritten,     \* what self.write was given, as a sequence
    patchOutcome,     \* how the request ended
    jobLog,           \* backend calls of this request: issued and completed
    \* ---- role-assignment filter applied on its own ----
    filterUser,       \* the user handed to _filter_role_assigments_by_garden
    filterGarden,     \* the garden handed to it
    filterOut,        \* the user it returned, as a sequence
    \* ---- user federation sync ----
    gardens,          \* the Garden collection
    users,            \* the User collection, in insertion order
    remoteUsers,      \* the RemoteUser collection
    syncPc,           \* position of user_sync: idle, import, push, done
    syncPayload,      \* serialized_users
    syncIdx,          \* index of the record _import_users is at
    syncPass,         \* how many times this payload has been delivered
    syncOutcome,      \* how the user_sync call ended
    lastImport,       \* what _import_users did with the last record
    routed,           \* route() calls of the current initiate_user_sync
    syncSnapshot,     \* the stored state after the first delivery
    \* ---- events of other gardens ----
    lastEvent,        \* the event the last handle_event call was given
    \* ---- stomp Connection ----
    hostAndPorts,     \* Connection.host_and_ports
    subscribeDestination, \* Connection.subscribe_destination
    bgActive,         \* Connection.bg_active
    brokerConnects,   \* calls of conn.connect the broker has seen
    brokerSubscribes, \* calls of conn.subscribe the broker has seen
    lastConnect,      \* what the last Connection.connect call did
    lastSend,         \* what the last send_event call did
    \* ---- startup in main ----
    mainPc,           \* position of main
    stopRequested,    \* Application.stop() has been called
    started,          \* Application.start() has been called
    probeUp,          \* which of the three dependencies answer
    attempts,         \* failed probes of the current progressive_backoff
    waitTime,         \* wait_time of the current progressive_backoff
    \* ---- job DELETE handler ----
    jobTable,         \* the jobs of the scheduler backend
    deleteReqs,       \* the DELETE requests in flight, one per slot
    \* ---- user_synced_with_garden called on its own ----
    lastSynced,       \* the last call: its arguments and what it returned
    \* ---- USER_UPDATED handlers running at the same time ----
    handlers,         \* the calls of _handle_user_updated_event in progress
    \* ---- user sync across a federation ----
    topology,         \* for each garden, its connected remote gardens
    inFlight,         \* USER_SYNC operations routed and not yet handled
    gardenUsers,      \* for each garden, the usernames of its User collection
    floodOrigin       \* the garden whose initiate_user_sync started the flood

stompVars == <<connected, sendDestination, sent, lastMsg>>

jobVars == <<jobStatus, patchPc, patchOps, patchIdx, patchResponse,
             patchWritten, patchOutcome, jobLog>>

filterVars == <<filterUser, filterGarden, filterOut>>

userVars == <<gardens, users, remoteUsers, syncPc, syncPayload, syncIdx,
              syncPass, syncOutcome, lastImport, routed, syncSnapshot>>

eventVars == <<lastEvent>>

connVars == <<hostAndPorts, subscribeDestination, bgActive, brokerConnects,
              brokerSubscribes, lastConnect, lastSend>>

mainVars == <<mainPc, stopRequested, started, probeUp, attempts, waitTime>>

deleteVars == <<jobTable, deleteReqs>>

syncedVars == <<lastSynced>>

raceVars == <<handlers>>

floodVars == <<topology, inFlight, gardenUsers, floodOrigin>>

moreVars == <<syncedVars, raceVars, floodVars>>

restVars == <<eventVars, connVars, mainVars, deleteVars, moreVars>>

vars == <<stompVars, jobVars, filterVars, userVars, restVars>>

(***************************************************************************)
(* STOMP listener                                                          *)
(***************************************************************************)
ReplyDests == {"X", "Y"}
SendDests  == {None, "", "D"}

\* inbound header maps: with or without the reply-to key
HeaderSets == UNION {[K -> ReplyDests] : K \in SUBSET {"reply-to"}}

\* outcomes of beer_garden.router.route as on_message sees them:
\* a truthy result, a falsy result (None), or a raised error
RouterOutcomes == {"result", "none", "raise"}

\* destination send_message hands to conn.send, None when it sends nothing
SendMessageDest(isConn, headers, dest) ==
    IF isConn /\ Truthy(dest)
    THEN IF "reply-to" \in DOMAIN headers
         THEN headers["reply-to"]
         ELSE dest
    ELSE None

\* destination send_error_msg hands to conn.send, None when it sends nothing
SendErrorDest(isConn, headers, dest) ==
    IF isConn
    THEN IF "reply-to" \in DOMAIN headers
         THEN headers["reply-to"]
         ELSE IF Truthy(dest) THEN dest ELSE None
    ELSE None

NoMsg == [headers |-> <<>>, wasConnected |-> FALSE, path |-> "none",
          replyFailed |-> FALSE, outcome |-> "none", sentTo |-> None]

InitStomp ==
    /\ connected = FALSE
    /\ sendDestination \in SendDests
    /\ sent = <<>>
    /\ lastMsg = NoMsg

IdleStomp ==
    /\ connected = FALSE
    /\ sendDestination = None
    /\ sent = <<>>
    /\ lastMsg = NoMsg

\* on_message in which a reply whose send raises has reached the broker
\* all the same, so that the error reply follows it
OnMessageReplyThenError(headers, wellFormed, router, drop1, stillUp, drop2) ==
    LET d1       == SendMessageDest(connected, headers, sendDestination)
        trySend  == wellFormed /\ router = "result"
        failed   == trySend /\ d1 # None /\ drop1
        raised   == \/ ~wellFormed
                    \/ router = "raise"
                    \/ failed
        conn2    == IF failed THEN stillUp ELSE connected
        d2       == SendErrorDest(conn2, headers, sendDestination)
        okReply  == trySend /\ d1 # None
        okError  == raised /\ d2 # None /\ ~drop2
        escapes  == raised /\ d2 # None /\ drop2
        reply    == [destination |-> d1, model |-> "result"]
        error    == [destination |-> d2, model |-> "error_message"]
    IN  /\ connected
        /\ Len(sent) < MaxSent
        /\ sent' = (IF okReply THEN Append(sent, reply) ELSE sent)
                    \o (IF okError THEN <<error>> ELSE <<>>)
        /\ connected' = IF escapes THEN FALSE ELSE conn2
        /\ lastMsg' = [headers |-> headers,
                       wasConnected |-> connected,
                       path |-> IF raised THEN "error" ELSE "success",
                       replyFailed |-> failed,
                       outcome |-> IF escapes THEN "escaped" ELSE "returned",
                       sentTo |-> IF okError THEN d2 ELSE IF okReply THEN d1 ELSE None]
        /\ UNCHANGED <<sendDestination, jobVars, filterVars, userVars, restVars>>

\* OperationListener.on_message, one whole call.
\*   wellFormed : SchemaParser.parse_operation succeeds
\*   router     : what route(operation) does
\*   drop1/drop2: conn.send of the reply / of the error reply raises after
\*                is_connected() answered True (the broker connection is
\*                lost in between)
\*   stillUp    : what is_connected() answers in send_error_msg after the
\*                send of the reply has raised
OnMessage(headers, wellFormed, router, drop1, stillUp, drop2) ==
    LET d1       == SendMessageDest(connected, headers, sendDestination)
        trySend  == wellFormed /\ router = "result"
        \* the send of the reply raised
        failed   == trySend /\ d1 # None /\ drop1
        \* the try block raised: parse error, router error, or reply send error
        raised   == \/ ~wellFormed
                    \/ router = "raise"
                    \/ failed
        conn2    == IF failed THEN stillUp ELSE connected
        d2       == SendErrorDest(conn2, headers, sendDestination)
        okReply  == trySend /\ d1 # None /\ ~drop1
        okError  == raised /\ d2 # None /\ ~drop2
        escapes  == raised /\ d2 # None /\ drop2
    IN  /\ connected
        /\ Len(sent) < MaxSent
        /\ sent' = IF okReply THEN Append(sent, [destination |-> d1, model |-> "result"])
                   ELSE IF okError THEN Append(sent, [destination |-> d2, model |-> "error_message"])
                   ELSE sent
        /\ connected' = IF escapes THEN FALSE ELSE conn2
        /\ lastMsg' = [headers |-> headers,
                       wasConnected |-> connected,
                       path |-> IF raised THEN "error" ELSE "success",
                       replyFailed |-> failed,
                       outcome |-> IF escapes THEN "escaped" ELSE "returned",
                       sentTo |-> IF okReply THEN d1 ELSE IF okError THEN d2 ELSE None]
        /\ UNCHANGED <<sendDestination, jobVars, filterVars, userVars, restVars>>

StompOnMessage ==
    \E headers \in HeaderSets, wellFormed \in BOOLEAN, router \in RouterOutcomes,
       drop1 \in BOOLEAN, stillUp \in BOOLEAN, drop2 \in BOOLEAN :
        OnMessage(headers, wellFormed, router, drop1, stillUp, drop2)

\* Connection.connect succeeding at the broker
StompConnect ==
    /\ ~connected
    /\ connected' = TRUE
    /\ UNCHANGED <<sendDestination, sent, lastMsg, jobVars, filterVars, userVars, restVars>>

\* Connection.disconnect, or the broker going away
StompDisconnect ==
    /\ connected
    /\ connected' = FALSE
    /\ UNCHANGED <<sendDestination, sent, lastMsg, jobVars, filterVars, userVars, restVars>>

NextStomp == StompOnMessage \/ StompConnect \/ StompDisconnect


(***************************************************************************)
(* Job PATCH handler                                                       *)
(***************************************************************************)
\* characters of the status values the requests carry, and str.upper on them
UpperChar(c) ==
    CASE c = "p" -> "P" [] c = "a" -> "A" [] c = "u" -> "U" [] c = "s" -> "S"
      [] c = "e" -> "E" [] c = "d" -> "D" [] c = "r" -> "R" [] c = "n" -> "N"
      [] c = "i" -> "I" [] c = "g" -> "G" [] c = "o" -> "O" [] c = "t" -> "T"
      [] OTHER -> c

Upper(chars) == [i \in DOMAIN chars |-> UpperChar(chars[i])]

StrVal(chars) == [type |-> "str", chars |-> chars]
NullVal == [type |-> "null", chars |-> <<>>]

\* Python's str(op.value)
Str(v) == IF v.type = "null" THEN <<"N", "o", "n", "e">> ELSE v.chars

PAUSED  == <<"P", "A", "U", "S", "E", "D">>
RUNNING == <<"R", "U", "N", "N", "I", "N", "G">>

PatchValues == {StrVal(PAUSED), StrVal(<<"p", "a", "u", "s", "e", "d">>),
                StrVal(RUNNING), StrVal(<<"R", "u", "n", "n", "i", "n", "g">>),
                StrVal(<<"S", "T", "O", "P", "P", "E", "D">>), NullVal}
PatchOperations == {"update", "replace"}
PatchPaths == {"/status", "/name"}

PatchOp == [operation : PatchOperations, path : PatchPaths, value : PatchValues]

\* operation lists of at most n entries
OpLists(n) == UNION {[1..k -> PatchOp] : k \in 0..n}

\* OpTarget comparing the value as sent, without str.upper
OpTargetCaseSensitive(op) ==
    IF op.operation = "update"
    THEN IF op.path = "/status"
         THEN IF Str(op.value) = PAUSED THEN "pauseJob"
              ELSE IF Str(op.value) = RUNNING THEN "resumeJob"
              ELSE "ModelValidationError"
         ELSE "ModelValidationError"
    ELSE "ModelValidationError"

\* one iteration of the loop body up to its yield: the backend call the
\* operation asks for, or the ModelValidationError it raises
OpTarget(op) ==
    IF op.operation = "update"
    THEN IF op.path = "/status"
         THEN IF Upper(Str(op.value)) = PAUSED THEN "pauseJob"
              ELSE IF Upper(Str(op.value)) = RUNNING THEN "resumeJob"
              ELSE "ModelValidationError"
         ELSE "ModelValidationError"
    ELSE "ModelValidationError"

\* the scheduler backend: status a completed call leaves the job in
BackendStatus(fn) == IF fn = "pauseJob" THEN "PAUSED" ELSE "RUNNING"

Unbound == [status |-> None, seq |-> 0]

IdleJob ==
    /\ jobStatus = "RUNNING"
    /\ patchPc = "idle"
    /\ patchOps = <<>>
    /\ patchIdx = 0
    /\ patchResponse = Unbound
    /\ patchWritten = <<>>
    /\ patchOutcome = "none"
    /\ jobLog = <<>>

\* JobAPI.patch from loop position i with `response` = resp and the call log
\* lg, run up to the next yield, the raise, or the end of the handler
PatchRun(ops, i, resp, lg) ==
    IF i > Len(ops)
    THEN \* self.write(response): response is unbound if no operation ran
         /\ patchPc' = "done"
         /\ patchIdx' = i
         /\ jobLog' = lg
         /\ patchResponse' = resp
         /\ patchWritten' = IF resp = Unbound THEN <<>> ELSE <<resp>>
         /\ patchOutcome' = IF resp = Unbound THEN "UnboundLocalError" ELSE "ok"
    ELSE IF OpTarget(ops[i]) = "ModelValidationError"
    THEN /\ patchPc' = "done"
         /\ patchIdx' = i
         /\ jobLog' = lg
         /\ patchResponse' = resp
         /\ patchWritten' = <<>>
         /\ patchOutcome' = "ModelValidationError"
    ELSE /\ patchPc' = "await"
         /\ patchIdx' = i
         /\ jobLog' = Append(lg, [ev |-> "call", fn |-> OpTarget(ops[i])])
         /\ patchResponse' = resp
         /\ patchWritten' = <<>>
         /\ patchOutcome' = "none"

\* a PATCH request arrives: parse_patch, then the loop up to its first yield
PatchBegin ==
    \E ops \in OpLists(MaxOps) :
        /\ patchPc = "idle"
        /\ patchOps' = ops
        /\ PatchRun(ops, 1, Unbound, <<>>)
        /\ UNCHANGED <<jobStatus, stompVars, filterVars, userVars, restVars>>

\* PatchResume keeping the first backend response instead of the latest
PatchResumeKeepsFirst ==
    /\ patchPc = "await"
    /\ LET fn   == OpTarget(patchOps[patchIdx])
           resp == IF patchResponse = Unbound
                   THEN [status |-> BackendStatus(fn), seq |-> patchIdx]
                   ELSE patchResponse
       IN  /\ jobStatus' = BackendStatus(fn)
           /\ PatchRun(patchOps, patchIdx + 1, resp,
                       Append(jobLog, [ev |-> "done", fn |-> fn]))
    /\ UNCHANGED <<patchOps, stompVars, filterVars, userVars, restVars>>

\* the awaited backend call completes and the coroutine resumes
PatchResume ==
    /\ patchPc = "await"
    /\ LET fn   == OpTarget(patchOps[patchIdx])
           resp == [status |-> BackendStatus(fn), seq |-> patchIdx]
       IN  /\ jobStatus' = BackendStatus(fn)
           /\ PatchRun(patchOps, patchIdx + 1, resp,
                       Append(jobLog, [ev |-> "done", fn |-> fn]))
    /\ UNCHANGED <<patchOps, stompVars, filterVars, userVars, restVars>>

\* the awaited backend call fails and the error leaves the handler
PatchBackendError ==
    /\ patchPc = "await"
    /\ patchPc' = "done"
    /\ patchOutcome' = "BackendError"
    /\ UNCHANGED <<jobStatus, patchOps, patchIdx, patchResponse, patchWritten,
                   jobLog, stompVars, filterVars, userVars, restVars>>

\* the request is over: the handler object and its locals are gone
PatchEnd ==
    /\ patchPc = "done"
    /\ patchPc' = "idle"
    /\ patchOps' = <<>>
    /\ patchIdx' = 0
    /\ patchResponse' = Unbound
    /\ patchWritten' = <<>>
    /\ patchOutcome' = "none"
    /\ jobLog' = <<>>
    /\ UNCHANGED <<jobStatus, stompVars, filterVars, userVars, restVars>>

NextJob == PatchBegin \/ PatchResume \/ PatchBackendError \/ PatchEnd

(***************************************************************************)
(* Users, gardens and the role-assignment filter                           *)
(***************************************************************************)
\* dict.get(key): None when the key is absent
Get(dict, key) == IF key \in DOMAIN dict THEN dict[key] ELSE None

Assignment(scope, identifiers) == [scope |-> scope, identifiers |-> identifiers]

GlobalA     == Assignment("Global", <<>>)
GardenB     == Assignment("Garden", [k \in {"name"} |-> "b"])
GardenNs1   == Assignment("Garden", [k \in {"name"} |-> "ns1"])
GardenNoKey == Assignment("Garden", [k \in {"namespace"} |-> "ns1"])
SystemNs1   == Assignment("System", [k \in {"namespace"} |-> "ns1"])
SystemNs2   == Assignment("System", [k \in {"namespace"} |-> "ns2"])

Assignments == {GlobalA, GardenB, GardenNs1, GardenNoKey, SystemNs1, SystemNs2}
Namespaces == {"ns1", "ns2", "b"}

\* role-assignment lists of at most n entries
AssignmentLists(n) == UNION {[1..k -> Assignments] : k \in 0..n}

UserDoc(username, roles, password) ==
    [username |-> username, role_assignments |-> roles, password |-> password]

GardenDoc(name, connectionType, namespaces) ==
    [name |-> name, connection_type |-> connectionType, namespaces |-> namespaces]

\* the condition of the list comprehension
KeepsAssignmentDropGarden(assignment, namespaces) ==
    \/ assignment.scope = "Global"
    \/ /\ assignment.scope = "System"
       /\ Get(assignment.identifiers, "namespace") \in namespaces

KeepsAssignment(assignment, namespaces) ==
    \/ assignment.scope = "Global"
    \/ /\ assignment.scope = "Garden"
       /\ Get(assignment.identifiers, "name") \in namespaces
    \/ /\ assignment.scope = "System"
       /\ Get(assignment.identifiers, "namespace") \in namespaces

\* _filter_role_assigments_by_garden: a copy of the user whose role
\* assignments are those that apply to the garden's namespaces
filter_role_assigments_by_garden(user, garden) ==
    [user EXCEPT !.role_assignments =
        SelectSeq(@, LAMBDA a : KeepsAssignment(a, garden.namespaces))]

\* _filter_role_assigments_by_garden that filters the document it was given
\* instead of a copy of it
FilterCallInPlace(user, garden) ==
    [source |-> filter_role_assigments_by_garden(user, garden),
     result |-> filter_role_assigments_by_garden(user, garden)]

\* the two documents after _filter_role_assigments_by_garden(user, garden):
\* the one the caller passed and the one returned.  copy(user) is a
\* document of its own, and the new list is assigned to the copy only
FilterCall(user, garden) ==
    [source |-> user,
     result |-> filter_role_assigments_by_garden(user, garden)]

IdleFilter ==
    /\ filterUser = UserDoc("alice", <<>>, None)
    /\ filterGarden = GardenDoc("g1", "HTTP", {})
    /\ filterOut = <<>>

InitFilter ==
    /\ filterUser \in {UserDoc("alice", roles, None) :
                          roles \in AssignmentLists(MaxAssignments)}
    /\ filterGarden \in {GardenDoc("g1", "HTTP", ns) : ns \in SUBSET Namespaces}
    /\ filterOut = <<>>

\* one call of _filter_role_assigments_by_garden(filterUser, filterGarden)
FilterApply ==
    /\ filterOut = <<>>
    /\ filterOut' = <<FilterCall(filterUser, filterGarden).result>>
    /\ filterUser' = FilterCall(filterUser, filterGarden).source
    /\ UNCHANGED <<filterGarden, stompVars, jobVars, userVars, restVars>>

NextFilter == FilterApply

(***************************************************************************)
(* User federation sync                                                    *)
(***************************************************************************)
\* config.get("garden.name")
LocalGardenName == "local"

Usernames == {"alice", "bob"}

\* User.password: nothing, a hash stored as received, or the salted hash
\* that set_password derives from a plain password
NoPassword == [hash |-> None, salt |-> 0]
PreHashed(h) == [hash |-> h, salt |-> 0]
set_password(value, salt) == [hash |-> value, salt |-> salt]

RemoteUserDoc(garden, username, roles, updatedAt) ==
    [garden |-> garden, username |-> username, role_assignments |-> roles,
     updated_at |-> updatedAt]

\* a serialized user of the wire payload. username = None: the key is
\* missing; valid = FALSE: UserPatchSchema(strict=True).load rejects it;
\* password = None / hashed_password = NoPassword: the key is missing
SerializedUser(username, valid, roles, password, hashed) ==
    [username |-> username, valid |-> valid, role_assignments |-> roles,
     password |-> password, hashed_password |-> hashed]

SyncRoleLists == {<<>>, <<GlobalA, GardenB, SystemNs1>>}

SerializedUsers ==
    {SerializedUser(u, TRUE, r, p, h) :
        u \in Usernames, r \in SyncRoleLists,
        p \in {None}, h \in {NoPassword, PreHashed("h1")}}
    \cup {SerializedUser(u, TRUE, r, "pw", NoPassword) :
        u \in Usernames, r \in SyncRoleLists}
    \cup {SerializedUser("alice", FALSE, <<>>, None, NoPassword),
          SerializedUser(None, TRUE, <<>>, None, NoPassword)}

\* payloads of at most n serialized users
Batches(n) == UNION {[1..k -> SerializedUsers] : k \in 0..n}

\* UserSyncSchema().dump(user).data
UserSyncSchemaDump(user) ==
    SerializedUser(user.username, TRUE, user.role_assignments, None, user.password)

\* position of the document User.objects.get(username=...) returns, 0 when
\* it raises DoesNotExist
UserIndex(coll, username) ==
    IF \E i \in DOMAIN coll : coll[i].username = username
    THEN CHOOSE i \in DOMAIN coll : coll[i].username = username
    ELSE 0

RemoteUserIndex(coll, garden, username) ==
    IF \E i \in DOMAIN coll : coll[i].garden = garden /\ coll[i].username = username
    THEN CHOOSE i \in DOMAIN coll :
            coll[i].garden = garden /\ coll[i].username = username
    ELSE 0

\* the Event _publish_user_updated publishes for a user of this garden
UserUpdatedEvent(user) ==
    [garden |-> LocalGardenName, name |-> "USER_UPDATED", timestamp |-> 0,
     metadata |-> [garden |-> LocalGardenName, user |-> UserSyncSchemaDump(user)]]

HasKey(dict, key) == key \in DOMAIN dict

\* the subscripts of _handle_user_updated_event: one of them raises KeyError
EventKeyError(event) ==
    \/ ~HasKey(event.metadata, "garden")
    \/ ~HasKey(event.metadata, "user")
    \/ ~HasKey(event.metadata.user, "username")
    \/ ~HasKey(event.metadata.user, "role_assignments")

\* the RemoteUser _handle_user_updated_event saves for a parsed event
EventRemoteUser(event) ==
    RemoteUserDoc(event.metadata.garden, event.metadata.user.username,
                  event.metadata.user.role_assignments, event.timestamp)

\* _handle_user_updated_event that fetches or creates the RemoteUser before
\* it reads role_assignments
handle_user_updated_event_saves_early(coll, event) ==
    IF /\ HasKey(event.metadata, "garden")
       /\ HasKey(event.metadata, "user")
       /\ HasKey(event.metadata.user, "username")
       /\ ~HasKey(event.metadata.user, "role_assignments")
       /\ RemoteUserIndex(coll, event.metadata.garden,
                          event.metadata.user.username) = 0
    THEN Append(coll, RemoteUserDoc(event.metadata.garden,
                                    event.metadata.user.username, <<>>, 0))
    ELSE IF EventKeyError(event)
    THEN coll
    ELSE LET doc == EventRemoteUser(event)
             i   == RemoteUserIndex(coll, doc.garden, doc.username)
         IN  IF i = 0 THEN Append(coll, doc) ELSE [coll EXCEPT ![i] = doc]

\* _handle_user_updated_event: upsert of the RemoteUser of the event; an
\* event lacking a key is logged and nothing is saved
handle_user_updated_event(coll, event) ==
    IF EventKeyError(event)
    THEN coll
    ELSE LET doc == EventRemoteUser(event)
             i   == RemoteUserIndex(coll, doc.garden, doc.username)
         IN  IF i = 0 THEN Append(coll, doc) ELSE [coll EXCEPT ![i] = doc]

\* handle_event without the check of the origin
handle_event_any_origin(coll, event) ==
    IF event.name = "USER_UPDATED"
    THEN handle_user_updated_event(coll, event)
    ELSE coll

\* handle_event: only events of downstream gardens are handled
handle_event(coll, event) ==
    IF event.garden = LocalGardenName
    THEN coll
    ELSE IF event.name = "USER_UPDATED"
         THEN handle_user_updated_event(coll, event)
         ELSE coll

\* update_user that hashes again a password that arrives already hashed
update_user_rehashes(user, data, salt) ==
    [user EXCEPT
        !.role_assignments = data.role_assignments,
        !.password = IF data.hashed_password # NoPassword
                     THEN set_password(data.hashed_password.hash, salt)
                     ELSE IF data.password # None
                          THEN set_password(data.password, salt)
                          ELSE @]

\* update_user(user, **data): the user document as saved
update_user(user, data, salt) ==
    [user EXCEPT
        !.role_assignments = data.role_assignments,
        !.password = IF data.hashed_password # NoPassword
                     THEN data.hashed_password
                     ELSE IF data.password # None
                          THEN set_password(data.password, salt)
                          ELSE @]

\* the loop body of _import_users creating a user whatever its assignments
import_user_always_creates(coll, rec, salt) ==
    LET i == UserIndex(coll, rec.username)
    IN  IF rec.username = None
        THEN [users |-> coll, case |-> "KeyError"]
        ELSE IF ~rec.valid
        THEN [users |-> coll, case |-> "invalid"]
        ELSE IF i # 0
        THEN [users |-> [coll EXCEPT ![i] = update_user(@, rec, salt)],
              case |-> "updated"]
        ELSE [users |-> Append(coll,
                  update_user(UserDoc(rec.username, <<>>, NoPassword), rec, salt)),
              case |-> "created"]

\* the loop body of _import_users for one serialized user: the User
\* collection it leaves and the branch it took
import_user(coll, rec, salt) ==
    LET i == UserIndex(coll, rec.username)
    IN  IF rec.username = None
        THEN [users |-> coll, case |-> "KeyError"]
        ELSE IF ~rec.valid
        THEN [users |-> coll, case |-> "invalid"]
        ELSE IF i # 0
        THEN [users |-> [coll EXCEPT ![i] = update_user(@, rec, salt)],
              case |-> "updated"]
        ELSE IF Len(rec.role_assignments) > 0
        THEN [users |-> Append(coll,
                  update_user(UserDoc(rec.username, <<>>, NoPassword), rec, salt)),
              case |-> "created"]
        ELSE [users |-> coll, case |-> "skipped"]

\* Garden.objects.filter(connection_type__nin=["LOCAL", None]), in order
RemoteGardens(coll) == SelectSeq(coll, LAMBDA g : g.connection_type \notin {"LOCAL", None})

\* the USER_SYNC operation initiate_user_sync builds for one garden
UserSyncOperation(coll, garden) ==
    [operation_type |-> "USER_SYNC",
     target_garden_name |-> garden.name,
     serialized_users |->
        [i \in DOMAIN coll |->
            UserSyncSchemaDump(FilterCall(coll[i], garden).result)]]

\* the loop of initiate_user_sync over remote[1..n], every route call
\* returning: the operations built, and the documents of
\* User.objects.all() as the filter calls made so far leave them
RECURSIVE BuildOperations(_, _, _)
BuildOperations(coll, remote, n) ==
    IF n = 0
    THEN [users |-> coll, operations |-> <<>>]
    ELSE LET prev == BuildOperations(coll, remote, n - 1)
         IN  [users |-> [i \in DOMAIN prev.users |->
                            FilterCall(prev.users[i], remote[n]).source],
              operations |-> Append(prev.operations,
                                    UserSyncOperation(prev.users, remote[n]))]

\* the Garden collection: this garden, a garden not yet connected, and two
\* connected remote gardens
GardenCollection ==
    <<GardenDoc(LocalGardenName, "LOCAL", {"local"}),
      GardenDoc("g0", None, {"ns1"}),
      GardenDoc("g1", "HTTP", {"ns1"}),
      GardenDoc("g2", "STOMP", {"ns2", "b"})>>

NoImport == [case |-> "none", username |-> None]
NoSnapshot == [users |-> <<>>, remoteUsers |-> <<>>]

IdleUser ==
    /\ gardens = <<GardenDoc(LocalGardenName, "LOCAL", {"local"})>>
    /\ users = <<>>
    /\ remoteUsers = <<>>
    /\ syncPc = "idle"
    /\ syncPayload = <<>>
    /\ syncIdx = 0
    /\ syncPass = 0
    /\ syncOutcome = "none"
    /\ lastImport = NoImport
    /\ routed = <<>>
    /\ syncSnapshot = NoSnapshot

InitUser ==
    /\ gardens = GardenCollection
    /\ users \in {<<>>, <<UserDoc("alice", <<SystemNs2>>, PreHashed("h0"))>>}
    /\ remoteUsers = <<RemoteUserDoc("g1", "alice", <<GlobalA>>, 1)>>
    /\ syncPc = "idle"
    /\ syncPayload = <<>>
    /\ syncIdx = 0
    /\ syncPass = 0
    /\ syncOutcome = "none"
    /\ lastImport = NoImport
    /\ routed = <<>>
    /\ syncSnapshot = NoSnapshot

\* a USER_SYNC operation arrives: user_sync(serialized_users) is entered
UserSyncBegin ==
    \E payload \in Batches(MaxBatch) :
        /\ syncPc = "idle"
        /\ syncPass = 0
        /\ syncPayload' = payload
        /\ syncPass' = 1
        /\ syncIdx' = 1
        /\ syncPc' = IF Len(payload) = 0 THEN "push" ELSE "import"
        /\ UNCHANGED <<gardens, users, remoteUsers, syncOutcome, lastImport,
                       routed, syncSnapshot, stompVars, jobVars, filterVars, restVars>>

\* the flood delivers the same payload once more
UserSyncRepeat ==
    /\ syncPc = "done"
    /\ syncPass = 1
    /\ syncPass' = 2
    /\ syncIdx' = 1
    /\ syncPc' = IF Len(syncPayload) = 0 THEN "push" ELSE "import"
    /\ syncOutcome' = "none"
    /\ lastImport' = NoImport
    /\ routed' = <<>>
    /\ syncSnapshot' = [users |-> users, remoteUsers |-> remoteUsers]
    /\ UNCHANGED <<gardens, users, remoteUsers, syncPayload,
                   stompVars, jobVars, filterVars, restVars>>

\* one iteration of the loop of _import_users
ImportRecord ==
    \E salt \in 1..MaxSalt :
        LET rec == syncPayload[syncIdx]
            res == import_user(users, rec, salt)
            i   == UserIndex(res.users, rec.username)
        IN  /\ syncPc = "import"
            /\ users' = res.users
            /\ remoteUsers' =
                 IF res.case \in {"updated", "created"}
                 THEN handle_event(remoteUsers, UserUpdatedEvent(res.users[i]))
                 ELSE remoteUsers
            /\ lastImport' = [case |-> res.case, username |-> rec.username]
            /\ syncIdx' = syncIdx + 1
            /\ syncPc' = IF res.case = "KeyError" THEN "done"
                         ELSE IF syncIdx = Len(syncPayload) THEN "push"
                         ELSE "import"
            /\ syncOutcome' = IF res.case = "KeyError" THEN "KeyError" ELSE syncOutcome
            /\ UNCHANGED <<gardens, syncPayload, syncPass, routed, syncSnapshot,
                           stompVars, jobVars, filterVars, restVars>>

\* what beer_garden.router.route may do during one initiate_user_sync: the
\* position among the remote gardens of the garden for which it raises
\* (RoutingError, RemoteUnreachableError), 0 when every call returns
RouteFailures(remote) == 0..Len(remote)

\* initiate_user_sync, called by user_sync after the import
InitiateUserSync ==
    \E failAt \in RouteFailures(RemoteGardens(gardens)) :
        LET remote == RemoteGardens(gardens)
            n      == IF failAt = 0 THEN Len(remote) ELSE failAt
        IN  /\ syncPc = "push"
            /\ routed' = [k \in 1..n |->
                            [operation |-> BuildOperations(users, remote, n).operations[k],
                             raised |-> (k = failAt)]]
            /\ syncOutcome' = IF failAt = 0 THEN "ok" ELSE "RoutingError"
            /\ syncPc' = "done"
            /\ UNCHANGED <<gardens, users, remoteUsers, syncPayload, syncIdx,
                           syncPass, lastImport, syncSnapshot,
                           stompVars, jobVars, filterVars, restVars>>

NextUser == UserSyncBegin \/ UserSyncRepeat \/ ImportRecord \/ InitiateUserSync

(***************************************************************************)
(* Events of other gardens                                                 *)
(***************************************************************************)
\* the gardens an event may come from, and the gardens its metadata may name
EventOrigins == {LocalGardenName, "g1", "g2"}

EventNames == {"USER_UPDATED", "GARDEN_UPDATED"}

MetadataGardens == {"g1", "g2"}

\* the user of the metadata: whole, or lacking one of its keys
MetadataUsers ==
    {[username |-> "alice", role_assignments |-> r] : r \in SyncRoleLists}
    \cup {[role_assignments |-> r] : r \in SyncRoleLists}
    \cup {[username |-> "alice"]}

\* Event.metadata: whole, or lacking one of its keys
Metadatas ==
    {[garden |-> g, user |-> u] : g \in MetadataGardens, u \in MetadataUsers}
    \cup {[user |-> u] : u \in MetadataUsers}
    \cup {[garden |-> g] : g \in MetadataGardens}

Events ==
    {[garden |-> o, name |-> n, timestamp |-> t, metadata |-> m] :
        o \in EventOrigins, n \in EventNames, t \in 1..MaxTime, m \in Metadatas}

NoEvent == [garden |-> None, name |-> None, timestamp |-> 0,
            metadata |-> [garden |-> None]]

IdleEvent == lastEvent = NoEvent

InitEvent ==
    /\ gardens = GardenCollection
    /\ users = <<>>
    /\ remoteUsers = <<>>
    /\ syncPc = "idle"
    /\ syncPayload = <<>>
    /\ syncIdx = 0
    /\ syncPass = 0
    /\ syncOutcome = "none"
    /\ lastImport = NoImport
    /\ routed = <<>>
    /\ syncSnapshot = NoSnapshot
    /\ lastEvent = NoEvent

\* the events manager hands one event to handle_event
HandleEvent ==
    \E event \in Events :
        /\ remoteUsers' = handle_event(remoteUsers, event)
        /\ lastEvent' = event
        /\ UNCHANGED <<gardens, users, syncPc, syncPayload, syncIdx, syncPass,
                       syncOutcome, lastImport, routed, syncSnapshot,
                       stompVars, jobVars, filterVars,
                       connVars, mainVars, deleteVars,
                       moreVars>>

NextEvent == HandleEvent

(***************************************************************************)
(* Stomp Connection                                                        *)
(***************************************************************************)
\* Connection.host_and_ports: <<>> for None or an empty list, else a list
\* whose first entry is the (host, port) pair connect looks at
HostAndPorts ==
    {<<>>, <<<<"", 61613>>>>, <<<<"broker", 0>>>>, <<<<"broker", 61613>>>>}

SubscribeDests == {None, "", "S"}

\* the gardens argument of connect: None (the default) or a list of gardens
GardensArgs == {None, "gardens"}

\* the wait_time argument of connect: None (the default) or a number
WaitTimes == {None, "0.1"}

\* what the broker does with the connect attempt of one call
BrokerOutcomes == {"ok", "connect_raises", "subscribe_raises"}

\* the conditions under which connect tries the broker at all
ConnectAttempts(hp, subscribe) ==
    /\ hp # <<>>
    /\ Truthy(hp[1][1])
    /\ hp[1][2] # 0
    /\ Truthy(subscribe)

\* the except block of connect builds its log line from the gardens
\* argument: iterating None raises TypeError out of the handler
ExceptBlockRaises(gardensArg) == gardensArg = None

NoConnect ==
    [called |-> FALSE, wasConnected |-> FALSE, gardens |-> None,
     wait_time |-> None, broker |-> "none", connectCalls |-> 0,
     subscribeCalls |-> 0, outcome |-> "none", connectedAfter |-> FALSE]

NoSend == [called |-> FALSE, wasConnected |-> FALSE, dropped |-> FALSE,
           handed |-> FALSE, outcome |-> "none"]

IdleConn ==
    /\ hostAndPorts = <<>>
    /\ subscribeDestination = None
    /\ bgActive = TRUE
    /\ brokerConnects = 0
    /\ brokerSubscribes = 0
    /\ lastConnect = NoConnect
    /\ lastSend = NoSend

\* a Connection as __init__ leaves it, for any constructor arguments
InitConn ==
    /\ hostAndPorts \in HostAndPorts
    /\ subscribeDestination \in SubscribeDests
    /\ sendDestination \in SendDests
    /\ connected = FALSE
    /\ sent = <<>>
    /\ lastMsg = NoMsg
    /\ bgActive = TRUE
    /\ brokerConnects = 0
    /\ brokerSubscribes = 0
    /\ lastConnect = NoConnect
    /\ lastSend = NoSend

\* Connection.connect, one whole call (connected_message is only logged).
\*   broker: what conn.connect / conn.subscribe do when they are called
\*   after : is_connected() once a failed conn.connect has returned control
Connect(gardensArg, waitArg, broker, after) ==
    LET attempt    == ConnectAttempts(hostAndPorts, subscribeDestination)
        subscribes == attempt /\ broker # "connect_raises"
                              /\ Truthy(subscribeDestination)
        failed     == attempt /\ broker # "ok"
        raises     == failed /\ ExceptBlockRaises(gardensArg)
    IN  /\ brokerConnects < MaxConnects
        /\ after \in (IF connected THEN BOOLEAN ELSE {FALSE})
        /\ brokerConnects' = brokerConnects + (IF attempt THEN 1 ELSE 0)
        /\ brokerSubscribes' = brokerSubscribes + (IF subscribes THEN 1 ELSE 0)
        /\ connected' = IF ~attempt THEN connected
                        ELSE IF broker = "connect_raises" THEN after
                        ELSE TRUE
        /\ lastConnect' =
             [called |-> TRUE, wasConnected |-> connected,
              gardens |-> gardensArg, wait_time |-> waitArg,
              broker |-> IF attempt THEN broker ELSE "none",
              connectCalls |-> IF attempt THEN 1 ELSE 0,
              subscribeCalls |-> IF subscribes THEN 1 ELSE 0,
              outcome |-> IF raises THEN "raised" ELSE "returned",
              connectedAfter |-> connected']
        /\ UNCHANGED <<hostAndPorts, subscribeDestination, bgActive, lastSend,
                       sendDestination, sent, lastMsg,
                       jobVars, filterVars, userVars,
                       eventVars, mainVars, deleteVars,
                       moreVars>>

ConnConnect ==
    \E gardensArg \in GardensArgs, waitArg \in WaitTimes,
       broker \in BrokerOutcomes, after \in BOOLEAN :
        Connect(gardensArg, waitArg, broker, after)

\* Connection.disconnect
ConnDisconnect ==
    /\ bgActive' = FALSE
    /\ connected' = FALSE
    /\ UNCHANGED <<hostAndPorts, subscribeDestination, brokerConnects,
                   brokerSubscribes, lastConnect, lastSend,
                   sendDestination, sent, lastMsg,
                   jobVars, filterVars, userVars,
                   eventVars, mainVars, deleteVars,
                   moreVars>>

\* the broker connection is lost
BrokerDrop ==
    /\ connected
    /\ connected' = FALSE
    /\ UNCHANGED <<sendDestination, sent, lastMsg,
                   jobVars, filterVars, userVars, restVars>>

\* Connection.send_event, one whole call: send_message without request
\* headers.  drop: the connection is lost between is_connected() and
\* conn.send, so that conn.send raises
SendEvent(drop) ==
    LET dest == SendMessageDest(connected, <<>>, sendDestination)
        sends == dest # None
    IN  /\ Len(sent) < MaxSent
        /\ sent' = IF sends /\ ~drop
                   THEN Append(sent, [destination |-> dest, model |-> "event"])
                   ELSE sent
        /\ connected' = IF sends /\ drop THEN FALSE ELSE connected
        /\ lastSend' = [called |-> TRUE, wasConnected |-> connected,
                        dropped |-> sends /\ drop,
                        handed |-> sends /\ ~drop,
                        outcome |-> IF sends /\ drop THEN "raised"
                                    ELSE "returned"]
        /\ UNCHANGED <<hostAndPorts, subscribeDestination, bgActive,
                       brokerConnects, brokerSubscribes, lastConnect,
                       sendDestination, lastMsg,
                       jobVars, filterVars, userVars,
                       eventVars, mainVars, deleteVars,
                       moreVars>>

ConnSendEvent == \E drop \in BOOLEAN : SendEvent(drop)

NextConn == ConnConnect \/ ConnDisconnect \/ BrokerDrop \/ ConnSendEvent

(***************************************************************************)
(* Startup in main                                                         *)
(***************************************************************************)
\* the three dependencies main waits for: mongo, rabbitmq, rabbitmq admin
Probes == 1..3

\* wait_time of progressive_backoff, in tenths of a second: it starts at
\* InitialWait and doubles after every failed probe up to WaitCap
InitialWait == 1

WaitCap == 4

NextWait(w) == IF 2 * w > WaitCap THEN WaitCap ELSE 2 * w

\* positions of main: in the k-th progressive_backoff before a probe or in
\* its wait, at the stopped() check, before start(), in pause(), finished
ProbePc(k) == <<"probe", k>>

WaitPc(k) == <<"wait", k>>

CheckPc == <<"check", 0>>

StartPc == <<"start", 0>>

PausePc == <<"pause", 0>>

EndPc == <<"end", 0>>

\* where main goes when the k-th progressive_backoff returns
AfterBackoff(k) == IF k = 3 THEN CheckPc ELSE ProbePc(k + 1)

IdleMain ==
    /\ mainPc = EndPc
    /\ stopRequested = FALSE
    /\ started = FALSE
    /\ probeUp = <<FALSE, FALSE, FALSE>>
    /\ attempts = 0
    /\ waitTime = 0

\* main has created the Application and registered the signal handlers
InitMain ==
    /\ mainPc = ProbePc(1)
    /\ stopRequested = FALSE
    /\ started = FALSE
    /\ probeUp \in [Probes -> BOOLEAN]
    /\ attempts = 0
    /\ waitTime = InitialWait

\* one turn of the loop of progressive_backoff: it returns when the owner
\* is stopped or the probe succeeds, else it goes to wait
BackoffProbe(k) ==
    /\ mainPc = ProbePc(k)
    /\ IF stopRequested \/ probeUp[k]
       THEN /\ mainPc' = AfterBackoff(k)
            /\ attempts' = 0
            /\ waitTime' = InitialWait
       ELSE /\ attempts < MaxAttempts
            /\ mainPc' = WaitPc(k)
            /\ attempts' = attempts + 1
            /\ UNCHANGED waitTime
    /\ UNCHANGED <<stopRequested, started, probeUp,
                   stompVars, jobVars, filterVars, userVars,
                   eventVars, connVars, deleteVars,
                   moreVars>>

\* the wait of progressive_backoff is over (or was cut short by a stop)
BackoffWait(k) ==
    /\ mainPc = WaitPc(k)
    /\ mainPc' = ProbePc(k)
    /\ waitTime' = NextWait(waitTime)
    /\ UNCHANGED <<stopRequested, started, probeUp, attempts,
                   stompVars, jobVars, filterVars, userVars,
                   eventVars, connVars, deleteVars,
                   moreVars>>

MainBackoff == \E k \in Probes : BackoffProbe(k) \/ BackoffWait(k)

\* a dependency comes up
DependencyUp ==
    \E k \in Probes :
        /\ mainPc # EndPc
        /\ ~probeUp[k]
        /\ probeUp' = [probeUp EXCEPT ![k] = TRUE]
        /\ UNCHANGED <<mainPc, stopRequested, started, attempts, waitTime,
                       stompVars, jobVars, filterVars, userVars,
                       eventVars, connVars, deleteVars,
                       moreVars>>

\* main evaluates `if not beer_garden.application.stopped()`
MainCheck ==
    /\ mainPc = CheckPc
    /\ mainPc' = IF stopRequested THEN EndPc ELSE StartPc
    /\ UNCHANGED <<stopRequested, started, probeUp, attempts, waitTime,
                   stompVars, jobVars, filterVars, userVars,
                   eventVars, connVars, deleteVars,
                   moreVars>>

\* main calls beer_garden.application.start() and goes on to signal.pause()
MainStart ==
    /\ mainPc = StartPc
    /\ started' = TRUE
    /\ mainPc' = PausePc
    /\ UNCHANGED <<stopRequested, probeUp, attempts, waitTime,
                   stompVars, jobVars, filterVars, userVars,
                   eventVars, connVars, deleteVars,
                   moreVars>>

\* SIGINT or SIGTERM arrives: signal_handler runs in the main thread
\* between two steps of main and calls Application.stop(); a signal.pause()
\* that was waiting returns
SignalHandler ==
    /\ mainPc # EndPc
    /\ stopRequested' = TRUE
    /\ mainPc' = IF mainPc = PausePc THEN EndPc ELSE mainPc
    /\ UNCHANGED <<started, probeUp, attempts, waitTime,
                   stompVars, jobVars, filterVars, userVars,
                   eventVars, connVars, deleteVars,
                   moreVars>>

NextMain ==
    MainBackoff \/ DependencyUp \/ MainCheck \/ MainStart \/ SignalHandler

(***************************************************************************)
(* Job DELETE handler                                                      *)
(***************************************************************************)
\* the jobs of the scheduler backend and what it holds for each
Jobs == {"j1", "j2"}

REMOVED == "REMOVED"

\* a DELETE request slot at rest; status is the status of the HTTP response,
\* 200 until the handler sets one
NoDelete == [pc |-> "idle", job |-> None, jobStatusAtCall |-> None,
             status |-> 200, removeCalls |-> 0, outcome |-> "none"]

IdleDelete ==
    /\ jobTable = [j \in Jobs |-> "RUNNING"]
    /\ deleteReqs = <<>>

InitDelete ==
    /\ jobTable \in [Jobs -> {"RUNNING", "PAUSED"}]
    /\ deleteReqs = [r \in 1..MaxDeletes |-> NoDelete]

\* JobAPI.delete that sets the status before it waits for the backend
DeleteBeginStatusFirst(r, job) ==
    /\ deleteReqs[r].pc = "idle"
    /\ deleteReqs' = [deleteReqs EXCEPT ![r] =
                        [pc |-> "await", job |-> job,
                         jobStatusAtCall |-> jobTable[job],
                         status |-> 204, removeCalls |-> 1,
                         outcome |-> "none"]]
    /\ UNCHANGED <<jobTable, stompVars, jobVars, filterVars, userVars,
                   eventVars, connVars, mainVars,
                   moreVars>>

\* JobAPI.delete up to its yield: client.removeJob(job_id) is called,
\* whatever the backend holds for the job
DeleteBegin(r, job) ==
    /\ deleteReqs[r].pc = "idle"
    /\ deleteReqs' = [deleteReqs EXCEPT ![r] =
                        [pc |-> "await", job |-> job,
                         jobStatusAtCall |-> jobTable[job],
                         status |-> 200, removeCalls |-> 1,
                         outcome |-> "none"]]
    /\ UNCHANGED <<jobTable, stompVars, jobVars, filterVars, userVars,
                   eventVars, connVars, mainVars,
                   moreVars>>

\* removeJob has completed: the coroutine resumes and sets status 204
DeleteResume(r) ==
    /\ deleteReqs[r].pc = "await"
    /\ jobTable' = [jobTable EXCEPT ![deleteReqs[r].job] = REMOVED]
    /\ deleteReqs' = [deleteReqs EXCEPT ![r].pc = "done",
                                        ![r].status = 204,
                                        ![r].outcome = "ok"]
    /\ UNCHANGED <<stompVars, jobVars, filterVars, userVars,
                   eventVars, connVars, mainVars,
                   moreVars>>

\* removeJob has failed: the error is raised at the yield and leaves delete
DeleteBackendError(r) ==
    /\ deleteReqs[r].pc = "await"
    /\ deleteReqs' = [deleteReqs EXCEPT ![r].pc = "done",
                                        ![r].outcome = "BackendError"]
    /\ UNCHANGED <<jobTable, stompVars, jobVars, filterVars, userVars,
                   eventVars, connVars, mainVars,
                   moreVars>>

\* the response has gone out; the slot takes the next request
DeleteEnd(r) ==
    /\ deleteReqs[r].pc = "done"
    /\ deleteReqs' = [deleteReqs EXCEPT ![r] = NoDelete]
    /\ UNCHANGED <<jobTable, stompVars, jobVars, filterVars, userVars,
                   eventVars, connVars, mainVars,
                   moreVars>>

\* another request has the backend pause or resume a job
BackendStatusChange(job, fn) ==
    /\ jobTable[job] # REMOVED
    /\ jobTable[job] # BackendStatus(fn)
    /\ jobTable' = [jobTable EXCEPT ![job] = BackendStatus(fn)]
    /\ UNCHANGED <<deleteReqs, stompVars, jobVars, filterVars, userVars,
                   eventVars, connVars, mainVars,
                   moreVars>>

JobDeleteBegin == \E r \in 1..MaxDeletes, job \in Jobs : DeleteBegin(r, job)

JobDeleteResume == \E r \in 1..MaxDeletes : DeleteResume(r)

JobDeleteBackendError == \E r \in 1..MaxDeletes : DeleteBackendError(r)

JobDeleteEnd == \E r \in 1..MaxDeletes : DeleteEnd(r)

JobBackendStatusChange ==
    \E job \in Jobs, fn \in {"pauseJob", "resumeJob"} :
        BackendStatusChange(job, fn)

NextDelete ==
    \/ JobDeleteBegin
    \/ JobDeleteResume
    \/ JobDeleteBackendError
    \/ JobDeleteEnd
    \/ JobBackendStatusChange

(***************************************************************************)
(* user_synced_with_garden                                                 *)
(***************************************************************************)
\* the positions of the documents a query on (garden, username) matches
RemoteUserMatches(coll, garden, username) ==
    {i \in DOMAIN coll :
        coll[i].garden = garden /\ coll[i].username = username}

\* RemoteUser.objects.get(username=..., garden=...): the position of the one
\* matching document, or the error raised when none or several match
RemoteUserGet(coll, garden, username) ==
    LET m == RemoteUserMatches(coll, garden, username)
    IN  IF m = {} THEN [raised |-> "DoesNotExist", index |-> 0]
        ELSE IF Cardinality(m) > 1
        THEN [raised |-> "MultipleObjectsReturned", index |-> 0]
        ELSE [raised |-> None, index |-> CHOOSE i \in m : TRUE]

\* the User documents the callers hold
SyncedUsers ==
    <<UserDoc("alice", <<GlobalA, GardenB, SystemNs1>>, NoPassword),
      UserDoc("bob", <<SystemNs2>>, NoPassword)>>

\* role assignments the events of the remote gardens report
SyncedRoleLists ==
    {<<>>, <<GlobalA, SystemNs1>>, <<SystemNs1, GlobalA>>,
     <<GlobalA, GardenB>>, <<GlobalA, GardenB, SystemNs1>>}

\* whole USER_UPDATED events of the remote gardens about alice
SyncedEvents ==
    {[garden |-> g, name |-> "USER_UPDATED", timestamp |-> t,
      metadata |-> [garden |-> g,
                    user |-> [username |-> "alice", role_assignments |-> r]]] :
        g \in MetadataGardens, t \in 1..MaxTime, r \in SyncedRoleLists}

\* user_synced_with_garden that compares the user's unfiltered role
\* assignments with those of the RemoteUser
user_synced_with_garden_unfiltered(user, garden, coll) ==
    LET got == RemoteUserGet(coll, garden.name, user.username)
        role_assignments == UserSyncSchemaDump(user).role_assignments
    IN  [raised |-> IF got.raised = "DoesNotExist" THEN None ELSE got.raised,
         value |-> /\ got.raised = None
                   /\ role_assignments = coll[got.index].role_assignments,
         user |-> user,
         remoteUsers |-> coll]

\* user_synced_with_garden(user, garden): the value returned or the error
\* raised, and the caller's User document and the RemoteUser collection as
\* the call leaves them. DoesNotExist is caught and False returned; the
\* local name user is rebound to the filtered copy; nothing is saved
user_synced_with_garden(user, garden, coll) ==
    LET got      == RemoteUserGet(coll, garden.name, user.username)
        call     == FilterCall(user, garden)
        role_assignments == UserSyncSchemaDump(call.result).role_assignments
    IN  IF got.raised # None
        THEN [raised |-> IF got.raised = "DoesNotExist" THEN None ELSE got.raised,
              value |-> FALSE,
              user |-> user,
              remoteUsers |-> coll]
        ELSE [raised |-> None,
              value |-> role_assignments = coll[got.index].role_assignments,
              user |-> call.source,
              remoteUsers |-> coll]

NoSynced == [called |-> FALSE, seq |-> 0, user |-> 0, garden |-> 0,
             raised |-> None, value |-> FALSE]

IdleSynced == lastSynced = NoSynced

InitSynced ==
    /\ gardens = GardenCollection
    /\ users = SyncedUsers
    /\ remoteUsers = <<>>
    /\ lastSynced = NoSynced

SyncedUnchanged ==
    UNCHANGED <<syncPc, syncPayload, syncIdx, syncPass,
                syncOutcome, lastImport, routed, syncSnapshot,
                stompVars, jobVars, filterVars,
                eventVars, connVars, mainVars, deleteVars,
                raceVars, floodVars>>

\* an event of a remote garden is handled, one event at a time
SyncedEvent ==
    \E event \in SyncedEvents :
        /\ remoteUsers' = handle_event(remoteUsers, event)
        /\ UNCHANGED <<gardens, users, lastSynced>>
        /\ SyncedUnchanged

\* a caller asks whether one of its users is synced with one of the gardens
SyncedCheck ==
    \E ui \in DOMAIN users, gi \in DOMAIN gardens :
        LET call == user_synced_with_garden(users[ui], gardens[gi], remoteUsers)
        IN  /\ users' = [users EXCEPT ![ui] = call.user]
            /\ remoteUsers' = call.remoteUsers
            /\ lastSynced' = [called |-> TRUE, seq |-> 1 - lastSynced.seq,
                              user |-> ui, garden |-> gi,
                              raised |-> call.raised, value |-> call.value]
            /\ UNCHANGED gardens
            /\ SyncedUnchanged

NextSynced ==
    \/ SyncedEvent
    \/ SyncedCheck

(***************************************************************************)
(* USER_UPDATED handlers running at the same time                          *)
(***************************************************************************)
\* the events the concurrent handlers receive: whole USER_UPDATED events of
\* the remote garden g1 about its user alice
RaceEvents ==
    {[garden |-> "g1", name |-> "USER_UPDATED", timestamp |-> t,
      metadata |-> [garden |-> "g1",
                    user |-> [username |-> "alice", role_assignments |-> r]]] :
        t \in 1..MaxTime, r \in SyncRoleLists}

\* what the document store does with the insert of a second document of one
\* (garden, username): it stores it, or it refuses it
StoreOutcomes == {"inserted", "NotUniqueError"}

IdleHandler == [pc |-> "idle", event |-> NoEvent, found |-> 0, raised |-> None]

IdleRace == handlers = <<>>

InitRace ==
    /\ remoteUsers = <<>>
    /\ handlers = [h \in 1..MaxHandlers |-> IdleHandler]

\* handle_event passes the event on and _handle_user_updated_event runs up
\* to the query: the fields of the event are read and the RemoteUser is
\* looked up; DoesNotExist is caught and a new document is built in memory
HandlerFetch(h, event) ==
    /\ handlers[h].pc = "idle"
    /\ event.garden # LocalGardenName
    /\ event.name = "USER_UPDATED"
    /\ ~EventKeyError(event)
    /\ LET got == RemoteUserGet(remoteUsers, event.metadata.garden,
                                event.metadata.user.username)
       IN  handlers' = [handlers EXCEPT ![h] =
               IF got.raised = "MultipleObjectsReturned"
               THEN [pc |-> "done", event |-> event, found |-> 0,
                     raised |-> got.raised]
               ELSE [pc |-> "fetched", event |-> event, found |-> got.index,
                     raised |-> None]]
    /\ UNCHANGED remoteUsers

\* the rest of _handle_user_updated_event: role_assignments and updated_at
\* are set and the document is saved. A fetched document is updated where
\* it is stored; a new one is inserted
HandlerSave(h, store) ==
    /\ handlers[h].pc = "fetched"
    /\ LET doc    == EventRemoteUser(handlers[h].event)
           found  == handlers[h].found
           exists == RemoteUserMatches(remoteUsers, doc.garden, doc.username) # {}
       IN  IF found # 0
           THEN /\ remoteUsers' = [remoteUsers EXCEPT ![found] = doc]
                /\ handlers' = [handlers EXCEPT ![h].pc = "done"]
           ELSE IF exists /\ store = "NotUniqueError"
           THEN /\ remoteUsers' = remoteUsers
                /\ handlers' = [handlers EXCEPT ![h].pc = "done",
                                                ![h].raised = store]
           ELSE /\ remoteUsers' = Append(remoteUsers, doc)
                /\ handlers' = [handlers EXCEPT ![h].pc = "done"]

\* the call is over, by return or by the error that left it
HandlerEnd(h) ==
    /\ handlers[h].pc = "done"
    /\ handlers' = [handlers EXCEPT ![h] = IdleHandler]
    /\ UNCHANGED remoteUsers

RaceUnchanged ==
    UNCHANGED <<gardens, users, syncPc, syncPayload, syncIdx, syncPass,
                syncOutcome, lastImport, routed, syncSnapshot,
                stompVars, jobVars, filterVars,
                eventVars, connVars, mainVars, deleteVars,
                syncedVars, floodVars>>

RaceFetch ==
    \E h \in 1..MaxHandlers, event \in RaceEvents :
        HandlerFetch(h, event) /\ RaceUnchanged

RaceSave ==
    \E h \in 1..MaxHandlers, store \in StoreOutcomes :
        HandlerSave(h, store) /\ RaceUnchanged

RaceEnd == \E h \in 1..MaxHandlers : HandlerEnd(h) /\ RaceUnchanged

NextRace ==
    \/ RaceFetch
    \/ RaceSave
    \/ RaceEnd

(***************************************************************************)
(* User sync across a federation                                           *)
(***************************************************************************)
\* the gardens of the federation; each runs this code with its own Garden
\* and User collections
FloodGardens == {"a", "b", "c"}

\* the Garden collections: for each garden the gardens it lists with a
\* connection_type other than LOCAL and None
Topologies ==
    {t \in [FloodGardens -> SUBSET FloodGardens] :
        \A g \in FloodGardens : g \notin t[g]}

\* the operations one initiate_user_sync of garden g routes: one USER_SYNC
\* per connected remote garden, carrying all users of g
FloodOperations(g, usernames, topo) ==
    {[source |-> g, target |-> r, users |-> usernames] : r \in topo[g]}

IdleFlood ==
    /\ topology = <<>>
    /\ inFlight = {}
    /\ gardenUsers = <<>>
    /\ floodOrigin = None

InitFlood ==
    /\ topology \in Topologies
    /\ inFlight = {}
    /\ gardenUsers \in [FloodGardens -> {{}, {"alice"}}]
    /\ floodOrigin = None

FloodUnchanged ==
    UNCHANGED <<stompVars, jobVars, filterVars, userVars,
                eventVars, connVars, mainVars, deleteVars,
                syncedVars, raceVars>>

\* one garden runs initiate_user_sync: the start of the flood
FloodStart ==
    \E g \in FloodGardens :
        /\ floodOrigin = None
        /\ floodOrigin' = g
        /\ inFlight' = FloodOperations(g, gardenUsers[g], topology)
        /\ UNCHANGED <<topology, gardenUsers>>
        /\ FloodUnchanged

\* the target of a routed USER_SYNC operation runs user_sync: it imports
\* the users and then runs initiate_user_sync itself, whatever the import
\* changed and wherever the operation came from
FloodDeliver ==
    \E op \in inFlight :
        LET imported == gardenUsers[op.target] \cup op.users
        IN  /\ gardenUsers' = [gardenUsers EXCEPT ![op.target] = imported]
            /\ inFlight' = (inFlight \ {op})
                              \cup FloodOperations(op.target, imported, topology)
            /\ UNCHANGED <<topology, floodOrigin>>
            /\ FloodUnchanged

NextFlood ==
    \/ FloodStart
    \/ FloodDeliver

(***************************************************************************)
(* Specifications                                                          *)
(***************************************************************************)
IdleMore ==
    /\ IdleSynced
    /\ IdleRace
    /\ IdleFlood

IdleRest ==
    /\ IdleEvent
    /\ IdleConn
    /\ IdleMain
    /\ IdleDelete
    /\ IdleMore

InitStompSpec ==
    /\ InitStomp
    /\ IdleJob
    /\ IdleFilter
    /\ IdleUser
    /\ IdleRest

SpecStomp == InitStompSpec /\ [][NextStomp]_vars

InitJobSpec ==
    /\ IdleStomp
    /\ IdleJob
    /\ IdleFilter
    /\ IdleUser
    /\ IdleRest

SpecJob == InitJobSpec /\ [][NextJob]_vars

InitFilterSpec ==
    /\ IdleStomp
    /\ IdleJob
    /\ InitFilter
    /\ IdleUser
    /\ IdleRest

SpecFilter == InitFilterSpec /\ [][NextFilter]_vars

InitUserSpec ==
    /\ IdleStomp
    /\ IdleJob
    /\ IdleFilter
    /\ InitUser
    /\ IdleRest

SpecUser == InitUserSpec /\ [][NextUser]_vars

InitEventSpec ==
    /\ IdleStomp
    /\ IdleJob
    /\ IdleFilter
    /\ InitEvent
    /\ IdleConn
    /\ IdleMain
    /\ IdleDelete
    /\ IdleMore

SpecEvent == InitEventSpec /\ [][NextEvent]_vars

InitConnSpec ==
    /\ InitConn
    /\ IdleJob
    /\ IdleFilter
    /\ IdleUser
    /\ IdleEvent
    /\ IdleMain
    /\ IdleDelete
    /\ IdleMore

SpecConn == InitConnSpec /\ [][NextConn]_vars

InitMainSpec ==
    /\ IdleStomp
    /\ IdleJob
    /\ IdleFilter
    /\ IdleUser
    /\ IdleEvent
    /\ IdleConn
    /\ InitMain
    /\ IdleDelete
    /\ IdleMore

SpecMain == InitMainSpec /\ [][NextMain]_vars

InitDeleteSpec ==
    /\ IdleStomp
    /\ IdleJob
    /\ IdleFilter
    /\ IdleUser
    /\ IdleEvent
    /\ IdleConn
    /\ IdleMain
    /\ InitDelete
    /\ IdleMore

SpecDelete == InitDeleteSpec /\ [][NextDelete]_vars

InitRaceSpec ==
    /\ IdleStomp
    /\ IdleJob
    /\ IdleFilter
    /\ gardens = GardenCollection
    /\ users = <<>>
    /\ syncPc = "idle"
    /\ syncPayload = <<>>
    /\ syncIdx = 0
    /\ syncPass = 0
    /\ syncOutcome = "none"
    /\ lastImport = NoImport
    /\ routed = <<>>
    /\ syncSnapshot = NoSnapshot
    /\ InitRace
    /\ IdleEvent
    /\ IdleConn
    /\ IdleMain
    /\ IdleDelete
    /\ IdleSynced
    /\ IdleFlood

SpecRace == InitRaceSpec /\ [][NextRace]_vars

InitSyncedSpec ==
    /\ IdleStomp
    /\ IdleJob
    /\ IdleFilter
    /\ InitSynced
    /\ syncPc = "idle"
    /\ syncPayload = <<>>
    /\ syncIdx = 0
    /\ syncPass = 0
    /\ syncOutcome = "none"
    /\ lastImport = NoImport
    /\ routed = <<>>
    /\ syncSnapshot = NoSnapshot
    /\ IdleEvent
    /\ IdleConn
    /\ IdleMain
    /\ IdleDelete
    /\ IdleRace
    /\ IdleFlood

SpecSynced == InitSyncedSpec /\ [][NextSynced]_vars

InitFloodSpec ==
    /\ IdleStomp
    /\ IdleJob
    /\ IdleFilter
    /\ IdleUser
    /\ IdleEvent
    /\ IdleConn
    /\ IdleMain
    /\ IdleDelete
    /\ IdleSynced
    /\ IdleRace
    /\ InitFlood

\* a routed operation reaches its target in the end
SpecFlood ==
    InitFloodSpec /\ [][NextFlood]_vars /\ WF_vars(FloodDeliver)

(***************************************************************************)
(* Claims about the STOMP listener                                         *)
(***************************************************************************)
\* C1: every inbound message that carries reply-to = X and is received on a
\* connected connection produces an outbound send addressed to X, whatever
\* the router returns or raises and whatever the default send destination is.
C1_ReplyToAlwaysAnswered ==
    (/\ lastMsg.path # "none"
     /\ lastMsg.wasConnected
     /\ "reply-to" \in DOMAIN lastMsg.headers)
    => lastMsg.sentTo = lastMsg.headers["reply-to"]

\* C2: send_message and send_error_msg resolve the destination alike: for the
\* connection's liveness and default destination and every request header map
\* they send to the same destination or both send nothing.
C2_SameDestinationResolution ==
    \A headers \in HeaderSets :
        SendMessageDest(connected, headers, sendDestination)
            = SendErrorDest(connected, headers, sendDestination)

\* C3: no exception ever escapes on_message, also when sending the reply or
\* the error reply fails.
C3_NoExceptionEscapes == lastMsg.outcome # "escaped"

(***************************************************************************)
(* Claims about the job PATCH handler                                      *)
(***************************************************************************)
\* the spellings of the two status values among PatchValues
PausedSpellings == {StrVal(PAUSED), StrVal(<<"p", "a", "u", "s", "e", "d">>)}
RunningSpellings == {StrVal(RUNNING), StrVal(<<"R", "u", "n", "n", "i", "n", "g">>)}

ValidOp(op) ==
    /\ op.operation = "update"
    /\ op.path = "/status"
    /\ op.value \in PausedSpellings \cup RunningSpellings

ExpectedCall(op) == IF op.value \in PausedSpellings THEN "pauseJob" ELSE "resumeJob"
ExpectedStatus(op) == IF op.value \in PausedSpellings THEN "PAUSED" ELSE "RUNNING"

\* the backend functions called so far in this request, in order
CallsMade == [k \in 1..Cardinality({i \in DOMAIN jobLog : jobLog[i].ev = "call"}) |->
                 jobLog[CHOOSE i \in DOMAIN jobLog :
                     /\ jobLog[i].ev = "call"
                     /\ Cardinality({j \in 1..i : jobLog[j].ev = "call"}) = k].fn]

\* C4: a PATCH request whose list holds an invalid operation anywhere makes no
\* backend call at all.
C4_InvalidPatchMakesNoBackendCall ==
    (patchPc # "idle" /\ \E i \in DOMAIN patchOps : ~ValidOp(patchOps[i]))
    => jobLog = <<>>

\* C5: a single update of /status maps the value case-insensitively: PAUSED
\* calls pauseJob once and leaves the job PAUSED, RUNNING calls resumeJob once
\* and leaves it RUNNING, any other value raises a validation error with no
\* backend call; the job status is always RUNNING or PAUSED.
C5_SingleStatusUpdate ==
    /\ jobStatus \in {"RUNNING", "PAUSED"}
    /\ (/\ patchPc = "done"
        /\ Len(patchOps) = 1
        /\ patchOps[1].operation = "update"
        /\ patchOps[1].path = "/status")
       => LET v == patchOps[1].value
          IN  /\ v \in PausedSpellings =>
                    /\ CallsMade = <<"pauseJob">>
                    /\ patchOutcome \in {"ok", "BackendError"}
                    /\ patchOutcome = "ok" => jobStatus = "PAUSED"
              /\ v \in RunningSpellings =>
                    /\ CallsMade = <<"resumeJob">>
                    /\ patchOutcome \in {"ok", "BackendError"}
                    /\ patchOutcome = "ok" => jobStatus = "RUNNING"
              /\ v \notin PausedSpellings \cup RunningSpellings =>
                    /\ jobLog = <<>>
                    /\ patchOutcome = "ModelValidationError"

W5_LowercasePausedApplied ==
    /\ patchPc = "done"
    /\ patchOps = <<[operation |-> "update", path |-> "/status",
                     value |-> StrVal(<<"p", "a", "u", "s", "e", "d">>)]>>
    /\ patchOutcome = "ok"
    /\ jobStatus = "PAUSED"

\* C6: for a request of several valid operations the backend calls are made
\* one per operation in list order, each completed before the next is issued,
\* and the response written is the backend response of the last operation.
C6_InOrderAwaitedReturnLast ==
    (patchPc # "idle" /\ \A i \in DOMAIN patchOps : ValidOp(patchOps[i]))
    => /\ \A k \in DOMAIN jobLog :
            /\ jobLog[k].ev = (IF k % 2 = 1 THEN "call" ELSE "done")
            /\ jobLog[k].fn = ExpectedCall(patchOps[(k + 1) \div 2])
       /\ (patchPc = "done" /\ Len(patchOps) >= 1 /\ patchOutcome # "BackendError")
            => /\ patchOutcome = "ok"
               /\ Len(jobLog) = 2 * Len(patchOps)
               /\ patchWritten =
                    <<[status |-> ExpectedStatus(patchOps[Len(patchOps)]),
                       seq |-> Len(patchOps)]>>

W6_TwoOperationsApplied ==
    /\ patchPc = "done"
    /\ patchOutcome = "ok"
    /\ Len(patchOps) = 2
    /\ ExpectedCall(patchOps[1]) # ExpectedCall(patchOps[2])
    /\ Len(jobLog) = 4

(***************************************************************************)
(* Claims about the user federation sync                                   *)
(***************************************************************************)
\* an assignment is relevant to a set of namespaces
Relevant(a, namespaces) ==
    CASE a.scope = "Global" -> TRUE
      [] a.scope = "Garden" ->
            "name" \in DOMAIN a.identifiers /\ a.identifiers["name"] \in namespaces
      [] a.scope = "System" ->
            "namespace" \in DOMAIN a.identifiers
                /\ a.identifiers["namespace"] \in namespaces
      [] OTHER -> FALSE

\* s is t with the entries at the positions outside keep removed
IsSelection(s, t, keep) ==
    /\ Len(s) = Cardinality(keep)
    /\ \A i \in keep :
          s[Cardinality({j \in keep : j <= i})] = t[i]

\* C7: filtering keeps an assignment iff its scope is Global, or Garden with
\* the name identifier among the garden's namespaces, or System with the
\* namespace identifier among them; {Global, Garden{b}, System{ns1}} filtered
\* for {ns1} is exactly {Global, System{ns1}}.
C7_FilterKeepsExactlyRelevant ==
    filterOut # <<>> =>
        /\ filterOut[1].username = filterUser.username
        /\ IsSelection(filterOut[1].role_assignments, filterUser.role_assignments,
                       {i \in DOMAIN filterUser.role_assignments :
                           Relevant(filterUser.role_assignments[i],
                                    filterGarden.namespaces)})
        /\ (/\ filterUser.role_assignments = <<GlobalA, GardenB, SystemNs1>>
            /\ filterGarden.namespaces = {"ns1"})
           => filterOut[1].role_assignments = <<GlobalA, SystemNs1>>

W7_GardenAssignmentKeptAndDropped ==
    /\ filterOut # <<>>
    /\ filterUser.role_assignments = <<GardenNs1, GardenB, SystemNs2>>
    /\ filterGarden.namespaces = {"ns1"}
    /\ filterOut[1].role_assignments = <<GardenNs1>>

\* the route() calls of the finished initiate_user_sync aimed at a garden
RoutedTo(name) == {k \in DOMAIN routed : routed[k].operation.target_garden_name = name}

IsRemote(g) == g.connection_type # "LOCAL" /\ g.connection_type # None

\* C8: one initiate_user_sync routes exactly one USER_SYNC operation to each
\* garden whose connection_type is neither LOCAL nor unset and none to any
\* other garden; the operation for garden G carries every local user with
\* only the role assignments relevant to G.
C8_OneSyncPerRemoteGarden ==
    (syncPc = "done" /\ syncOutcome \in {"ok", "RoutingError"})
    => \A gi \in DOMAIN gardens :
          LET g == gardens[gi]
          IN  /\ Cardinality(RoutedTo(g.name)) = (IF IsRemote(g) THEN 1 ELSE 0)
              /\ \A k \in RoutedTo(g.name) :
                    LET op == routed[k].operation
                    IN  /\ op.operation_type = "USER_SYNC"
                        /\ Len(op.serialized_users) = Len(users)
                        /\ \A i \in DOMAIN users :
                              /\ op.serialized_users[i].username = users[i].username
                              /\ IsSelection(
                                    op.serialized_users[i].role_assignments,
                                    users[i].role_assignments,
                                    {j \in DOMAIN users[i].role_assignments :
                                        Relevant(users[i].role_assignments[j],
                                                 g.namespaces)})

\* the record a step of _import_users is about
CurrentRecord == syncPayload[syncIdx]

HasUser(coll, username) == \E i \in DOMAIN coll : coll[i].username = username

\* the stored password after an update with the record's data
PasswordAsUpdated(before, after, rec) ==
    IF rec.hashed_password # NoPassword THEN after = rec.hashed_password
    ELSE IF rec.password # None THEN after.hash = rec.password /\ after.salt >= 1
    ELSE after = before

\* C9: importing a serialized user: an existing user of that username is
\* updated with the incoming data; if none exists and the incoming
\* role-assignment list is non-empty a user is created and updated; if none
\* exists and the list is empty nothing is stored.
C9_ImportThreeCases ==
    [][(syncPc = "import" /\ CurrentRecord.username # None /\ CurrentRecord.valid)
       => LET rec == CurrentRecord
          IN  IF HasUser(users, rec.username)
              THEN /\ Len(users') = Len(users)
                   /\ \A i \in DOMAIN users :
                        IF users[i].username = rec.username
                        THEN /\ users'[i].username = rec.username
                             /\ users'[i].role_assignments = rec.role_assignments
                             /\ PasswordAsUpdated(users[i].password,
                                                  users'[i].password, rec)
                        ELSE users'[i] = users[i]
              ELSE IF rec.role_assignments # <<>>
              THEN /\ Len(users') = Len(users) + 1
                   /\ SubSeq(users', 1, Len(users)) = users
                   /\ users'[Len(users')].username = rec.username
                   /\ users'[Len(users')].role_assignments = rec.role_assignments
                   /\ PasswordAsUpdated(NoPassword, users'[Len(users')].password, rec)
              ELSE users' = users]_vars

\* a user was created by a record with assignments after a record of the
\* same username without assignments had been skipped
W9_UserCreatedByImport ==
    /\ lastImport.case = "created"
    /\ \E i \in DOMAIN users :
          /\ users[i].username = lastImport.username
          /\ users[i].role_assignments # <<>>
    /\ \E i \in DOMAIN syncPayload :
          /\ syncPayload[i].username = lastImport.username
          /\ syncPayload[i].role_assignments = <<>>

NoDuplicateUsers ==
    \A i, j \in DOMAIN users : users[i].username = users[j].username => i = j

\* the second delivery of the payload has been applied
AppliedTwice == syncPc = "done" /\ syncPass = 2

SameAsAppliedOnce ==
    /\ users = syncSnapshot.users
    /\ remoteUsers = syncSnapshot.remoteUsers
    /\ NoDuplicateUsers

\* C10 as stated: applying user_sync twice with the same serialized payload
\* leaves the same User and RemoteUser records as applying it once, with no
\* duplicated user.
C10_IdempotentForAnyPayload == AppliedTwice => SameAsAppliedOnce

OneRecordPerUsername ==
    \A i, j \in DOMAIN syncPayload :
        syncPayload[i].username = syncPayload[j].username => i = j

NoPlainPassword == \A i \in DOMAIN syncPayload : syncPayload[i].password = None

\* C10 as amended: for a payload with at most one record per username and no
\* plain (not yet hashed) password, applying user_sync twice leaves the same
\* User and RemoteUser records as applying it once, with no duplicated user.
C10_IdempotentForSyncPayload ==
    (AppliedTwice /\ OneRecordPerUsername /\ NoPlainPassword) => SameAsAppliedOnce

W10_CreatedThenReapplied ==
    /\ AppliedTwice
    /\ OneRecordPerUsername
    /\ NoPlainPassword
    /\ Len(syncPayload) = 2
    /\ lastImport.case = "updated"
    /\ Len(users) = 2
    /\ \E i \in DOMAIN users : users[i].password = PreHashed("h1")

\* C11: import errors are per record: whatever the position of a malformed
\* serialized user in the batch (one failing schema validation or one
\* lacking the username), every other record of the batch is still imported,
\* so after the import every well-formed record with a non-empty
\* role-assignment list has its user.
C11_OtherRecordsStillImported ==
    (syncPass = 1 /\ syncPc \in {"push", "done"})
    => \A i \in DOMAIN syncPayload :
          (/\ syncPayload[i].valid
           /\ syncPayload[i].username # None
           /\ syncPayload[i].role_assignments # <<>>)
          => HasUser(users, syncPayload[i].username)

\* C20: every user_sync runs the import over the whole batch and then
\* exactly one initiate_user_sync: a finished user_sync has been through
\* every record of its payload and through the push.
C20_ImportThenOnePush ==
    syncPc = "done"
    => /\ syncIdx = Len(syncPayload) + 1
       /\ syncOutcome \in {"ok", "RoutingError"}

(***************************************************************************)
(* Claims about events of other gardens                                    *)
(***************************************************************************)
\* the RemoteUser records of a collection with the key (garden, username)
WithKey(coll, garden, username) ==
    {i \in DOMAIN coll : coll[i].garden = garden /\ coll[i].username = username}

\* the records of a collection with any other key, as a bag
OtherKeys(coll, garden, username) ==
    LET idx == DOMAIN coll \ WithKey(coll, garden, username)
    IN  [d \in {coll[i] : i \in idx} |-> Cardinality({i \in idx : coll[i] = d})]

RemoteUserUpdated(event) ==
    /\ event.garden # LocalGardenName
    /\ event.name = "USER_UPDATED"

\* C12: handle_event changes nothing for an event whose origin garden is
\* the local garden; for a USER_UPDATED event of any other garden the
\* RemoteUser keyed by (metadata garden, username) is created if absent and
\* updated otherwise, with the role assignments and updated_at of the
\* event, and no other RemoteUser changes.
C12_LocalIgnoredRemoteUpserted ==
    [][LET event == lastEvent'
       IN  /\ event.garden = LocalGardenName => remoteUsers' = remoteUsers
           /\ (RemoteUserUpdated(event) /\ ~EventKeyError(event))
              => LET garden   == event.metadata.garden
                     username == event.metadata.user.username
                     before   == WithKey(remoteUsers, garden, username)
                     after    == WithKey(remoteUsers', garden, username)
                 IN  /\ Cardinality(after) = 1
                     /\ Len(remoteUsers') =
                          Len(remoteUsers) + (IF before = {} THEN 1 ELSE 0)
                     /\ \A i \in after :
                          /\ remoteUsers'[i].role_assignments =
                               event.metadata.user.role_assignments
                          /\ remoteUsers'[i].updated_at = event.timestamp
                     /\ OtherKeys(remoteUsers', garden, username) =
                          OtherKeys(remoteUsers, garden, username)]_vars

\* an existing RemoteUser of g1 was updated by an event that came through g2
W12_ExistingRemoteUserUpdated ==
    /\ lastEvent.garden = "g2"
    /\ lastEvent.name = "USER_UPDATED"
    /\ ~EventKeyError(lastEvent)
    /\ lastEvent.metadata.garden = "g1"
    /\ lastEvent.timestamp = 2
    /\ Len(remoteUsers) = 2
    /\ remoteUsers[1] = EventRemoteUser(lastEvent)

\* C19: a USER_UPDATED event of a remote garden lacking an expected key
\* (metadata garden, metadata user, the user's username or role_assignments)
\* is dropped: no RemoteUser is created or modified.
C19_MalformedEventDropped ==
    [][(RemoteUserUpdated(lastEvent') /\ EventKeyError(lastEvent'))
       => remoteUsers' = remoteUsers]_vars

\* an event whose user lacks role_assignments was handled with records stored
W19_EventWithoutRoleAssignments ==
    /\ RemoteUserUpdated(lastEvent)
    /\ HasKey(lastEvent.metadata, "garden")
    /\ HasKey(lastEvent.metadata, "user")
    /\ HasKey(lastEvent.metadata.user, "username")
    /\ ~HasKey(lastEvent.metadata.user, "role_assignments")
    /\ WithKey(remoteUsers, lastEvent.metadata.garden,
               lastEvent.metadata.user.username) = {}
    /\ remoteUsers # <<>>

(***************************************************************************)
(* Claims about the stomp Connection                                       *)
(***************************************************************************)
\* C13: Connection.connect is idempotent: a call on a connection that is
\* already connected is a no-op, with no broker connect, no subscription
\* and no error.
C13_ConnectIdempotent ==
    (lastConnect.called /\ lastConnect.wasConnected)
    => /\ lastConnect.connectCalls = 0
       /\ lastConnect.subscribeCalls = 0
       /\ lastConnect.outcome = "returned"

\* a connection for outbound publishing only
OutboundOnly ==
    /\ hostAndPorts # <<>>
    /\ Truthy(hostAndPorts[1][1])
    /\ hostAndPorts[1][2] # 0
    /\ Truthy(sendDestination)
    /\ ~Truthy(subscribeDestination)

\* C14: a connection with valid endpoints, a send destination and no
\* subscribe destination still connects on connect(), skipping only the
\* subscription: the call makes the broker connect and no subscribe, and
\* leaves the connection connected when the broker accepts.
C14_OutboundOnlyConnects ==
    (lastConnect.called /\ OutboundOnly)
    => /\ lastConnect.connectCalls = 1
       /\ lastConnect.subscribeCalls = 0
       /\ (lastConnect.broker = "ok" => lastConnect.connectedAfter)

\* C15: a send on a connection that is down, or that drops between the
\* liveness check and the send, neither raises nor hands a message to the
\* broker.
C15_SendOnDeadConnectionSilent ==
    (lastSend.called /\ (~lastSend.wasConnected \/ lastSend.dropped))
    => /\ lastSend.outcome = "returned"
       /\ ~lastSend.handed

\* C18: a failed connect attempt never raises to the caller of connect:
\* for every argument combination, the defaults included, a failure of the
\* broker connect or of the subscribe is caught, and connect returns with
\* the connection not connected.
C18_FailedConnectNeverRaises ==
    (lastConnect.called
     /\ lastConnect.broker \in {"connect_raises", "subscribe_raises"})
    => /\ lastConnect.outcome = "returned"
       /\ ~lastConnect.connectedAfter

(***************************************************************************)
(* Claims about startup                                                    *)
(***************************************************************************)
\* C16: Application.start() is never called once a stop has been requested,
\* at whatever point of startup the shutdown signal arrives.
C16_NoStartAfterStop ==
    [][stopRequested => started' = started]_vars

(***************************************************************************)
(* Claims about the job DELETE handler                                     *)
(***************************************************************************)
\* C17: DELETE of a job calls removeJob on the backend exactly once,
\* whatever the status of the job, and sets the success status 204 only
\* after removeJob has completed; if removeJob fails no success status is
\* set.
C17_RemoveOnceThenSuccess ==
    \A r \in DOMAIN deleteReqs :
        LET req == deleteReqs[r]
        IN  /\ req.pc = "idle"
               => \A job \in Jobs : ENABLED DeleteBegin(r, job)
            /\ req.pc = "await"
               => /\ req.removeCalls = 1
                  /\ req.status # 204
            /\ req.pc = "done"
               => /\ req.removeCalls = 1
                  /\ (req.status = 204) <=> (req.outcome = "ok")
                  /\ req.outcome = "ok" => jobTable[req.job] = REMOVED

\* a paused job was deleted with 204 while the DELETE of another job failed
W17_PausedJobDeletedOtherFailed ==
    \E r1, r2 \in DOMAIN deleteReqs :
        /\ deleteReqs[r1].pc = "done"
        /\ deleteReqs[r1].outcome = "ok"
        /\ deleteReqs[r1].jobStatusAtCall = "PAUSED"
        /\ deleteReqs[r1].status = 204
        /\ deleteReqs[r2].pc = "done"
        /\ deleteReqs[r2].outcome = "BackendError"
        /\ deleteReqs[r2].job # deleteReqs[r1].job
        /\ jobTable[deleteReqs[r2].job] # REMOVED

(***************************************************************************)
(* Further claims about the job PATCH handler                              *)
(***************************************************************************)
\* C27: a PATCH request with an empty operation list makes no backend call
\* and completes without raising an error.
C27_EmptyPatchCompletes ==
    (patchPc = "done" /\ patchOps = <<>>)
    => /\ jobLog = <<>>
       /\ patchOutcome = "ok"

(***************************************************************************)
(* Further claims about the user federation sync                           *)
(***************************************************************************)
\* C26: within one initiate_user_sync a routing failure for one remote
\* garden does not prevent the push to the others: when the call is over,
\* route has been called with a USER_SYNC operation for every connected
\* remote garden, whether or not an earlier call raised.
C26_FailureDoesNotStopPush ==
    (syncPc = "done" /\ syncOutcome \in {"ok", "RoutingError"})
    => \A gi \in DOMAIN gardens :
          IsRemote(gardens[gi]) => RoutedTo(gardens[gi].name) # {}

(***************************************************************************)
(* Further claims about the STOMP listener                                 *)
(***************************************************************************)
\* C22: for each inbound message the listener sends at most one outbound
\* message, never both a result reply and an error reply, also when the
\* send of the result reply fails: one on_message call hands the broker no
\* message or exactly one.
C22_AtMostOneOutbound ==
    [][/\ Len(sent') <= Len(sent) + 1
       /\ SubSeq(sent', 1, Len(sent)) = sent]_vars

\* the send of the result reply failed and the error reply was sent
W22_ErrorReplyAfterFailedReply ==
    /\ lastMsg.replyFailed
    /\ lastMsg.outcome = "returned"
    /\ lastMsg.sentTo # None
    /\ sent # <<>>
    /\ sent[Len(sent)].model = "error_message"
    /\ \A i \in DOMAIN sent : sent[i].model # "result"

\* C24: filtering leaves the source user unchanged, so within one
\* initiate_user_sync the payload for each garden is computed from the
\* users' full assignment lists, whatever gardens were visited before it.
C24_SourceUserUnchanged ==
    /\ \A i \in DOMAIN users : \A gi \in DOMAIN gardens :
          FilterCall(users[i], gardens[gi]).source = users[i]
    /\ (syncPc = "done" /\ syncOutcome \in {"ok", "RoutingError"})
       => \A k \in DOMAIN routed : \A gi \in DOMAIN gardens :
             gardens[gi].name = routed[k].operation.target_garden_name
             => LET payload == routed[k].operation.serialized_users
                IN  /\ Len(payload) = Len(users)
                    /\ \A i \in DOMAIN users :
                          IsSelection(
                             payload[i].role_assignments,
                             users[i].role_assignments,
                             {j \in DOMAIN users[i].role_assignments :
                                 Relevant(users[i].role_assignments[j],
                                          gardens[gi].namespaces)})

\* the garden visited second was sent an assignment that the filter had
\* dropped for the garden visited first
W24_SecondGardenGetsDroppedAssignment ==
    /\ syncPc = "done"
    /\ syncOutcome = "ok"
    /\ Len(routed) = 2
    /\ \E i \in DOMAIN users :
          /\ \E j \in DOMAIN users[i].role_assignments :
                users[i].role_assignments[j] = GardenB
          /\ \A j \in DOMAIN routed[1].operation.serialized_users[i].role_assignments :
                routed[1].operation.serialized_users[i].role_assignments[j] # GardenB
          /\ \E j \in DOMAIN routed[2].operation.serialized_users[i].role_assignments :
                routed[2].operation.serialized_users[i].role_assignments[j] = GardenB


FilteredEquals(stored, user, garden) ==
    IsSelection(stored, user.role_assignments,
                {i \in DOMAIN user.role_assignments :
                    Relevant(user.role_assignments[i], garden.namespaces)})

\* C21: user_synced_with_garden is a pure predicate: it returns False when
\* no RemoteUser exists for (username, garden), otherwise True exactly when
\* the user's role assignments filtered for that garden equal the
\* RemoteUser's stored role assignments; the call changes neither the User
\* nor any RemoteUser nor any other stored state.
C21_PurePredicate ==
    [][lastSynced' # lastSynced =>
        LET user   == users[lastSynced'.user]
            garden == gardens[lastSynced'.garden]
            key    == WithKey(remoteUsers, garden.name, user.username)
        IN  /\ lastSynced'.raised = None
            /\ key = {} => lastSynced'.value = FALSE
            /\ key # {} =>
                  lastSynced'.value =
                      (\E i \in key :
                          FilteredEquals(remoteUsers[i].role_assignments,
                                         user, garden))
            /\ users' = users
            /\ remoteUsers' = remoteUsers
            /\ gardens' = gardens]_vars

\* the predicate has answered True for a user whose RemoteUser holds the
\* filtered assignments, which differ from the user's own
W21_SyncedAfterFilter ==
    /\ lastSynced.called
    /\ lastSynced.value
    /\ remoteUsers[RemoteUserIndex(remoteUsers,
                                   gardens[lastSynced.garden].name,
                                   users[lastSynced.user].username)]
           .role_assignments # users[lastSynced.user].role_assignments


(***************************************************************************)
(* Claims about the user sync across a federation                          *)
(***************************************************************************)
\* C23: the user-sync flood started by one initiate_user_sync terminates in
\* every federation topology, two gardens that each list the other as a
\* connected remote included: from some point on no USER_SYNC operation is
\* in flight, so none is routed after finitely many of them.
C23_FloodTerminates == <>[](inFlight = {})

====
